---- MODULE Spec2Model ----
(***************************************************************************)
(* Model of router/src/validation.rs: the request validation engine, the   *)
(* tokenization dispatch service (round-robin distributor + workers) and   *)
(* the multimodal chunk builder.                                           *)
(*                                                                         *)
(* Prompts are sequences of units.  A unit is one text character class or  *)
(* one whole media marker (the text a regex match covers), so positions in *)
(* a prompt are unit offsets, 0-based as the byte offsets of the source.   *)
(* Floating point parameters are modelled in tenths (10 is 1.0).           *)
(* The casts `as u32` are not modelled: every length of the model is far   *)
(* below 2^32.                                                             *)
(***************************************************************************)
EXTENDS Integers, Sequences, FiniteSets, TLC

(***************************************************************************)
(* Bounds of the model.                                                    *)
(***************************************************************************)
NCallers == 3
MaxWorkers == 2
MaxTok == 2
MaxDev == 2
FeatureCount == 1
MaxUnits == 3
MaxBestOf == 2
MaxFrames == 258
MaxDirect == 1
MaxDrops == 1

(***************************************************************************)
(* Option<T>, Result<T, E>.                                                *)
(***************************************************************************)
None == <<>>
Some(v) == <<v>>
IsSome(o) == Len(o) = 1
Unwrap(o) == o[1]

Ok(v) == [ok |-> TRUE, val |-> v]
Err(e) == [ok |-> FALSE, err |-> e]

Min(a, b) == IF a < b THEN a ELSE b
Max(a, b) == IF a > b THEN a ELSE b

\* str::repeat
Repeat(s, n) == [i \in 1..(n * Len(s)) |-> s[((i - 1) % Len(s)) + 1]]

(***************************************************************************)
(* Prompt units.                                                           *)
(*   "a", "b"   plain text                                                 *)
(*   "x"        plain text on which the tokenizer capability fails         *)
(*   "<fake_token_around_image>"  plain text that spells the boundary      *)
(*              marker of Idefics2                                         *)
(*   "img"      ![](data:image/gif;base64,...) with a decodable payload    *)
(*   "imgPng"   ![](data:image/png;base64,...) with another payload        *)
(*   "imgBad"   ![](...) whose content is neither a URL nor a data URI     *)
(*   "vid"      <video>(https://...) that ffprobe/ffmpeg process           *)
(*   "vidBad"   <video>(https://...) on which ffprobe fails                *)
(*   "vidData"  <video>(data:video/mp4;base64,...)                         *)
(***************************************************************************)
TextUnits == {"a", "b", "x", "<fake_token_around_image>"}

\* static RE = !\[\]\([^\)]*\)
RE_matches(unit) == unit \in {"img", "imgPng", "imgBad"}

\* static VIDEO_RE = <video>\((https?://[^\)]+)\) : only the http(s) form
VIDEO_RE_matches(unit) == unit \in {"vid", "vidBad"}

\* Config families: "NoConfig" is config = None, "Text" any config that is
\* not one of the six vision families.
VisionFamilies == {"Idefics", "Mllama", "Idefics2", "Paligemma", "LlavaNext", "Qwen2Vl"}

\* inputs[a..b] on a string: panics when a > b
SliceOk(a, b) == a <= b
Slice(s, a, b) == SubSeq(s, a + 1, b)

\* config.get_number_of_features(height, width)
get_number_of_features(config, height, width) == FeatureCount

\* fetch_image: (data, mimetype, height, width) or an error
fetch_image(unit) ==
  IF unit = "img"
    THEN Ok([data |-> "gifbytes", mimetype |-> "image/gif", height |-> 1, width |-> 1])
    ELSE IF unit = "imgPng"
      THEN Ok([data |-> "pngbytes", mimetype |-> "image/png", height |-> 2, width |-> 1])
      ELSE Err(<<"InvalidImageContent">>)

\* fetch_video: ProcessedVideo or an error
fetch_video(unit, target_width, target_height) ==
  IF unit \in {"vid", "vidData"}
    THEN Ok([mimetype |-> "video/mp4", height |-> target_height, width |-> target_width,
             frames |-> 1, sampled_frames |-> 1])
    ELSE IF unit = "vidBad"
      THEN Err(<<"FFmpegError">>)
      ELSE Err(<<"InvalidVideoContent">>)

\* image_tokens: the placeholder expansion of one image
image_tokens(config, do_image_splitting, height, width) ==
  LET slots == get_number_of_features(config, height, width)
      IMAGE == <<"<image>">>
      FAKE == <<"<fake_token_around_image>">>
  IN CASE config = "Idefics" -> IMAGE
       [] config = "Mllama" -> <<"<|image|>">>
       [] config = "Idefics2" ->
            LET image_string == FAKE \o Repeat(IMAGE, slots) \o FAKE
            IN IF do_image_splitting THEN Repeat(image_string, 5) ELSE image_string
       [] config \in {"Paligemma", "LlavaNext"} -> Repeat(IMAGE, slots)
       [] config = "Qwen2Vl" ->
            <<"<|vision_start|>", "\"">> \o Repeat(<<"<|image_pad|>">>, slots)
              \o <<"\"", "<|vision_end|>">>

\* the frame count is not clamped to max_frames
video_nframes_no_max(sampled_frames) ==
  LET nframes == Max(sampled_frames, 2)
  IN ((nframes + 1) \div 2) * 2

\* the number of frames video_tokens uses: clamp, then (n / 2.0).round() * 2
video_nframes(sampled_frames) ==
  LET nframes == Min(Max(sampled_frames, 2), 256)
  IN ((nframes + 1) \div 2) * 2

video_num_tokens(height, width, sampled_frames) ==
  (video_nframes(sampled_frames) * height * width) \div 1541

\* video_tokens: defined for Qwen2Vl only; unimplemented!() panics otherwise
video_tokens_supported(config) == config = "Qwen2Vl"

video_tokens(config, height, width, sampled_frames) ==
  <<"<|vision_start|>", "\"">>
    \o Repeat(<<"<|video_pad|>">>, video_num_tokens(height, width, sampled_frames))
    \o <<"\"", "<|vision_end|>">>

\* text.replace(FAKE FAKE, FAKE): one left-to-right pass, non-overlapping
RECURSIVE replace_fake_pairs(_)
replace_fake_pairs(text) ==
  IF Len(text) < 2 THEN text
  ELSE IF text[1] = "<fake_token_around_image>" /\ text[2] = "<fake_token_around_image>"
    THEN <<"<fake_token_around_image>">> \o replace_fake_pairs(SubSeq(text, 3, Len(text)))
    ELSE <<text[1]>> \o replace_fake_pairs(Tail(text))

\* the query is left as the chunk loop built it
image_tokens_fixup_skipped(config, text) == text

image_tokens_fixup(config, text) ==
  IF config = "Idefics2" THEN replace_fake_pairs(text) ELSE text

(***************************************************************************)
(* The tokenizer capability (TokenizerTrait::encode_trait): one token id   *)
(* per unit of the query; it fails on a query that contains "x".           *)
(***************************************************************************)
TokId(tok) ==
  CASE tok = "a" -> 1
    [] tok = "b" -> 2
    [] tok = "<image>" -> 3
    [] tok = "<fake_token_around_image>" -> 4
    [] tok = "<|image_pad|>" -> 5
    [] tok = "<|video_pad|>" -> 6
    [] OTHER -> 9

encode_trait(tokenizer_query, add_special_tokens) ==
  IF \E i \in 1..Len(tokenizer_query) : tokenizer_query[i] = "x"
    THEN Err("cannot encode")
    ELSE Ok([i \in 1..Len(tokenizer_query) |-> TokId(tokenizer_query[i])])

(***************************************************************************)
(* prepare_input.  The scan state is (input_chunks, tokenizer_query,       *)
(* start); kind "err" is an early return through `?`, kind "panic" a panic *)
(* of the calling worker.                                                  *)
(***************************************************************************)
Running(chunks, query, start) ==
  [kind |-> "run", chunks |-> chunks, query |-> query, start |-> start]
Failed(e) == [kind |-> "err", err |-> e]
Panicked == [kind |-> "panic"]

TextChunk(s) == [type |-> "Text", text |-> s]

\* the text before a match is pushed even when it is empty
push_text_always(inputs, st, chunk_start) ==
  IF SliceOk(st.start, chunk_start)
    THEN Running(Append(st.chunks, TextChunk(Slice(inputs, st.start, chunk_start))),
                 st.query \o Slice(inputs, st.start, chunk_start),
                 st.start)
    ELSE Panicked

\* if chunk_start != start { push Text(inputs[start..chunk_start]) ... }
push_text_before(inputs, st, chunk_start) ==
  IF chunk_start # st.start
    THEN IF SliceOk(st.start, chunk_start)
           THEN Running(Append(st.chunks, TextChunk(Slice(inputs, st.start, chunk_start))),
                        st.query \o Slice(inputs, st.start, chunk_start),
                        st.start)
           ELSE Panicked
    ELSE st

\* one iteration of `for chunk in VIDEO_RE.find_iter(&inputs)`
video_step(inputs, config, st, p) ==
  LET chunk_start == p - 1
      chunk_end == p
      st1 == push_text_before(inputs, st, chunk_start)
      processed_video == IF config = "Qwen2Vl"
                           THEN fetch_video(inputs[p], 360, 420)
                           ELSE fetch_video(inputs[p], 224, 224)
  IN IF st1.kind # "run" THEN st1
     ELSE IF ~processed_video.ok THEN Failed(processed_video.err)
     ELSE IF ~video_tokens_supported(config) THEN Panicked
     ELSE LET v == processed_video.val
          IN Running(Append(st1.chunks,
                            [type |-> "Video", mimetype |-> v.mimetype, width |-> v.width,
                             height |-> v.height, num_frames |-> v.frames]),
                     st1.query \o video_tokens(config, v.height, v.width, v.sampled_frames),
                     chunk_end)

\* one iteration of `for chunk in RE.find_iter(&inputs)`
image_step(inputs, config, do_image_splitting, st, p) ==
  LET chunk_start == p - 1
      chunk_end == p
      st1 == push_text_before(inputs, st, chunk_start)
      fetched == fetch_image(inputs[p])
  IN IF st1.kind # "run" THEN st1
     ELSE IF ~fetched.ok THEN Failed(fetched.err)
     ELSE LET i == fetched.val
          IN Running(Append(st1.chunks,
                            [type |-> "Image", data |-> i.data, mimetype |-> i.mimetype]),
                     st1.query \o image_tokens(config, do_image_splitting, i.height, i.width),
                     chunk_end)

RECURSIVE video_loop(_, _, _, _)
video_loop(inputs, config, st, p) ==
  IF p > Len(inputs) \/ st.kind # "run" THEN st
  ELSE IF VIDEO_RE_matches(inputs[p])
    THEN video_loop(inputs, config, video_step(inputs, config, st, p), p + 1)
    ELSE video_loop(inputs, config, st, p + 1)

RECURSIVE image_loop(_, _, _, _, _)
image_loop(inputs, config, do_image_splitting, st, p) ==
  IF p > Len(inputs) \/ st.kind # "run" THEN st
  ELSE IF RE_matches(inputs[p])
    THEN image_loop(inputs, config, do_image_splitting,
                    image_step(inputs, config, do_image_splitting, st, p), p + 1)
    ELSE image_loop(inputs, config, do_image_splitting, st, p + 1)

\* the trailing text, then image_tokens_fixup
finish_chunks(inputs, config, st) ==
  IF st.kind # "run" THEN st
  ELSE LET st1 == IF st.start # Len(inputs)
                    THEN Running(Append(st.chunks, TextChunk(Slice(inputs, st.start, Len(inputs)))),
                                 st.query \o Slice(inputs, st.start, Len(inputs)),
                                 st.start)
                    ELSE st
       IN Running(st1.chunks, image_tokens_fixup(config, st1.query), st1.start)

\* a missing or text-only config is scanned for media like Idefics
build_chunks_default_idefics(inputs, config, do_image_splitting) ==
  LET family == IF config \in VisionFamilies THEN config ELSE "Idefics"
  IN finish_chunks(inputs, family,
       image_loop(inputs, family, do_image_splitting,
         video_loop(inputs, family, Running(<<>>, <<>>, 0), 1), 1))

\* (tokenizer_query, input_chunks) of prepare_input
build_chunks(inputs, config, do_image_splitting) ==
  IF config \in VisionFamilies
    THEN finish_chunks(inputs, config,
           image_loop(inputs, config, do_image_splitting,
             video_loop(inputs, config, Running(<<>>, <<>>, 0), 1), 1))
    ELSE Running(<<TextChunk(inputs)>>, inputs, 0)

\* the encode failure is unwrapped instead of mapped to an error
prepare_input_unwrap_encode(inputs, add_special_tokens, config, do_image_splitting) ==
  LET built == build_chunks(inputs, config, do_image_splitting)
  IN IF built.kind = "panic" THEN [kind |-> "panic"]
     ELSE IF built.kind = "err" THEN [kind |-> "done", res |-> Err(built.err)]
     ELSE LET encoding == encode_trait(built.query, add_special_tokens)
          IN IF encoding.ok
               THEN [kind |-> "done",
                     res |-> Ok([encoding |-> encoding.val, chunks |-> built.chunks])]
               ELSE [kind |-> "panic"]

\* prepare_input: Ok((encoding, input_chunks)), Err(ValidationError) or a panic
prepare_input(inputs, add_special_tokens, config, do_image_splitting) ==
  LET built == build_chunks(inputs, config, do_image_splitting)
  IN IF built.kind = "panic" THEN [kind |-> "panic"]
     ELSE IF built.kind = "err" THEN [kind |-> "done", res |-> Err(built.err)]
     ELSE LET encoding == encode_trait(built.query, add_special_tokens)
          IN IF encoding.ok
               THEN [kind |-> "done",
                     res |-> Ok([encoding |-> encoding.val, chunks |-> built.chunks])]
               ELSE [kind |-> "done", res |-> Err(<<"Tokenizer", encoding.err>>)]

(***************************************************************************)
(* Validation::validate, up to the call of validate_input: the checks of   *)
(* the request parameters, in source order.  `self` is the Validation      *)
(* record, `request` the GenerateRequest with its parameters flattened.    *)
(* The pass-through fields watermark, decoder_input_details and adapter_id *)
(* are left out.                                                           *)
(***************************************************************************)
unwrap_or(o, d) == IF IsSome(o) THEN Unwrap(o) ELSE d

\* an explicit seed counts as a sampling knob
sampling_or_seed(request) ==
  \/ request.do_sample
  \/ IsSome(request.temperature)
  \/ IsSome(request.top_k)
  \/ IsSome(request.top_p)
  \/ IsSome(request.typical_p)
  \/ IsSome(request.seed)

sampling(request) ==
  \/ request.do_sample
  \/ IsSome(request.temperature)
  \/ IsSome(request.top_k)
  \/ IsSome(request.top_p)
  \/ IsSome(request.typical_p)

\* a temperature of exactly 0 passes
validate_sampling_negative_only(self, request) ==
  LET best_of == unwrap_or(request.best_of, 1)
      temperature == unwrap_or(request.temperature, 10)
      repetition_penalty == unwrap_or(request.repetition_penalty, 10)
      frequency_penalty == unwrap_or(request.frequency_penalty, 0)
  IN IF best_of > 1 /\ ~sampling(request) THEN Err(<<"BestOfSampling">>)
     ELSE IF temperature < 0 THEN Err(<<"Temperature">>)
     ELSE IF repetition_penalty <= 0 THEN Err(<<"RepetitionPenalty">>)
     ELSE IF ~(-20 <= frequency_penalty /\ frequency_penalty <= 20)
       THEN Err(<<"FrequencyPenalty">>)
     ELSE IF IsSome(request.top_p) /\ (Unwrap(request.top_p) <= 0 \/ Unwrap(request.top_p) >= 10)
       THEN Err(<<"TopP">>)
     ELSE IF IsSome(request.typical_p)
               /\ (Unwrap(request.typical_p) <= 0 \/ Unwrap(request.typical_p) >= 10)
       THEN Err(<<"TypicalP">>)
     ELSE IF IsSome(request.top_k) /\ Unwrap(request.top_k) <= 0 THEN Err(<<"TopK">>)
     ELSE Ok([temperature |-> temperature,
              repetition_penalty |-> repetition_penalty,
              frequency_penalty |-> frequency_penalty,
              top_p |-> unwrap_or(request.top_p, 10),
              typical_p |-> unwrap_or(request.typical_p, 10),
              top_k |-> unwrap_or(request.top_k, 0)])

\* a top_p of exactly 1.0 passes
resolve_top_p_inclusive(top_p) ==
  IF IsSome(top_p)
    THEN IF Unwrap(top_p) <= 0 \/ Unwrap(top_p) > 10 THEN Err(<<"TopP">>) ELSE Ok(Unwrap(top_p))
    ELSE Ok(10)

\* top_p.map(|value| ..).unwrap_or(Ok(1.0))
resolve_top_p(top_p) ==
  IF IsSome(top_p)
    THEN IF Unwrap(top_p) <= 0 \/ Unwrap(top_p) >= 10 THEN Err(<<"TopP">>) ELSE Ok(Unwrap(top_p))
    ELSE Ok(10)

\* validate, from best_of to top_k: the sampling parameters
validate_sampling(self, request) ==
  LET best_of == unwrap_or(request.best_of, 1)
      temperature == unwrap_or(request.temperature, 10)
      repetition_penalty == unwrap_or(request.repetition_penalty, 10)
      frequency_penalty == unwrap_or(request.frequency_penalty, 0)
  IN IF best_of > 1 /\ ~sampling(request) THEN Err(<<"BestOfSampling">>)
     ELSE IF temperature <= 0 THEN Err(<<"Temperature">>)
     ELSE IF repetition_penalty <= 0 THEN Err(<<"RepetitionPenalty">>)
     ELSE IF ~(-20 <= frequency_penalty /\ frequency_penalty <= 20)
       THEN Err(<<"FrequencyPenalty">>)
     ELSE IF ~resolve_top_p(request.top_p).ok THEN resolve_top_p(request.top_p)
     ELSE IF IsSome(request.typical_p)
               /\ (Unwrap(request.typical_p) <= 0 \/ Unwrap(request.typical_p) >= 10)
       THEN Err(<<"TypicalP">>)
     ELSE IF IsSome(request.top_k) /\ Unwrap(request.top_k) <= 0 THEN Err(<<"TopK">>)
     ELSE Ok([temperature |-> temperature,
              repetition_penalty |-> repetition_penalty,
              frequency_penalty |-> frequency_penalty,
              top_p |-> resolve_top_p(request.top_p).val,
              typical_p |-> unwrap_or(request.typical_p, 10),
              top_k |-> unwrap_or(request.top_k, 0)])

\* the seed is accepted whatever best_of is
resolve_seed_unchecked(seed, best_of) == Ok(seed)

\* an explicit seed is refused from best_of = 1 on
resolve_seed_from_one(seed, best_of) ==
  IF IsSome(seed) /\ best_of >= 1 THEN Err(<<"BestOfSeed">>) ELSE Ok(seed)

\* match seed { None => random, Some(seed) => BestOfSeed if best_of > 1 }: the
\* random seed is drawn where validate is called
resolve_seed(seed, best_of) ==
  IF IsSome(seed) /\ best_of > 1 THEN Err(<<"BestOfSeed">>) ELSE Ok(seed)

\* the maximum itself is refused
resolve_top_n_tokens_exclusive(self, top_n_tokens) ==
  IF IsSome(top_n_tokens)
    THEN IF Unwrap(top_n_tokens) >= self.max_top_n_tokens
           THEN Err(<<"TopNTokens", self.max_top_n_tokens, Unwrap(top_n_tokens)>>)
           ELSE Ok(Unwrap(top_n_tokens))
    ELSE Ok(0)

\* top_n_tokens.map(|value| ..).unwrap_or(Ok(0))
resolve_top_n_tokens(self, top_n_tokens) ==
  IF IsSome(top_n_tokens)
    THEN IF Unwrap(top_n_tokens) > self.max_top_n_tokens
           THEN Err(<<"TopNTokens", self.max_top_n_tokens, Unwrap(top_n_tokens)>>)
           ELSE Ok(Unwrap(top_n_tokens))
    ELSE Ok(0)

\* a truncate of 0 passes
resolve_truncate_zero_passes(self, truncate) ==
  IF IsSome(truncate) /\ Unwrap(truncate) > self.max_input_length
    THEN Err(<<"Truncate", self.max_input_length, Unwrap(truncate)>>)
    ELSE Ok(truncate)

\* truncate.map(|value| ...).unwrap_or(Ok(None))?
resolve_truncate(self, truncate) ==
  IF IsSome(truncate) /\ (Unwrap(truncate) = 0 \/ Unwrap(truncate) > self.max_input_length)
    THEN Err(<<"Truncate", self.max_input_length, Unwrap(truncate)>>)
    ELSE Ok(truncate)

\* validate, from max_new_tokens to truncate: the limits of the request
validate_limits(self, request) ==
  LET best_of == unwrap_or(request.best_of, 1)
  IN IF request.max_new_tokens = Some(0) THEN Err(<<"NegativeMaxNewTokens">>)
     ELSE IF Len(request.stop) > self.max_stop_sequences
       THEN Err(<<"StopSequence", self.max_stop_sequences, Len(request.stop)>>)
     ELSE IF ~resolve_seed(request.seed, best_of).ok THEN resolve_seed(request.seed, best_of)
     ELSE IF ~resolve_top_n_tokens(self, request.top_n_tokens).ok
       THEN resolve_top_n_tokens(self, request.top_n_tokens)
     ELSE IF request.inputs = <<>> THEN Err(<<"EmptyInput">>)
     ELSE IF ~resolve_truncate(self, request.truncate).ok
       THEN resolve_truncate(self, request.truncate)
     ELSE Ok([top_n_tokens |-> resolve_top_n_tokens(self, request.top_n_tokens).val,
              truncate |-> request.truncate])

Checked(s, l) ==
  Ok([temperature |-> s.temperature,
      repetition_penalty |-> s.repetition_penalty,
      frequency_penalty |-> s.frequency_penalty,
      top_p |-> s.top_p,
      typical_p |-> s.typical_p,
      top_k |-> s.top_k,
      top_n_tokens |-> l.top_n_tokens,
      truncate |-> l.truncate])

\* the limits of the request are checked before its sampling parameters
validate_parameters_limits_first(self, request) ==
  LET s == validate_sampling(self, request)
      l == validate_limits(self, request)
  IN IF ~l.ok THEN l ELSE IF ~s.ok THEN s ELSE Checked(s.val, l.val)

\* every check of validate that comes before validate_input
validate_parameters(self, request) ==
  LET s == validate_sampling(self, request)
      l == validate_limits(self, request)
  IN IF ~s.ok THEN s ELSE IF ~l.ok THEN l ELSE Checked(s.val, l.val)

(***************************************************************************)
(* Validation::validate_input, after the reply of tokenize: `reply` is the *)
(* (encoding, chunks) pair.                                                *)
(***************************************************************************)
\* the first input_length ids are kept
input_ids_from_start(ids, input_length) == SubSeq(ids, 1, Min(input_length, Len(ids)))

\* ids[ids.len().saturating_sub(input_length)..]
input_ids_of(ids, input_length) == SubSeq(ids, Max(Len(ids) - input_length, 0) + 1, Len(ids))

\* the InputLength check is missing
validate_input_total_only(self, reply, truncate, max_new_tokens) ==
  LET encoding == reply.encoding
      input_length == IF IsSome(truncate) THEN Min(Len(encoding), Unwrap(truncate))
                                          ELSE Len(encoding)
      new_tokens == IF IsSome(max_new_tokens) THEN Unwrap(max_new_tokens)
                    ELSE Max(self.max_total_tokens - input_length, 0)
      total_tokens == input_length + new_tokens
  IN IF total_tokens > self.max_total_tokens
       THEN Err(<<"MaxTotalTokens", self.max_total_tokens, input_length, new_tokens>>)
     ELSE Ok([inputs |-> reply.chunks,
              input_ids |-> Some(input_ids_of(encoding, input_length)),
              input_length |-> input_length,
              max_new_tokens |-> new_tokens])

\* InputLength is checked before MaxTotalTokens
validate_input_length_first(self, reply, truncate, max_new_tokens) ==
  LET encoding == reply.encoding
      input_length == IF IsSome(truncate) THEN Min(Len(encoding), Unwrap(truncate))
                                          ELSE Len(encoding)
      new_tokens == IF IsSome(max_new_tokens) THEN Unwrap(max_new_tokens)
                    ELSE Max(self.max_total_tokens - input_length, 0)
      total_tokens == input_length + new_tokens
  IN IF input_length > self.max_input_length
       THEN Err(<<"InputLength", self.max_input_length, input_length>>)
     ELSE IF total_tokens > self.max_total_tokens
       THEN Err(<<"MaxTotalTokens", self.max_total_tokens, input_length, new_tokens>>)
     ELSE Ok([inputs |-> reply.chunks,
              input_ids |-> Some(input_ids_of(encoding, input_length)),
              input_length |-> input_length,
              max_new_tokens |-> new_tokens])

validate_input(self, reply, truncate, max_new_tokens) ==
  LET encoding == reply.encoding
      input_length == IF IsSome(truncate) THEN Min(Len(encoding), Unwrap(truncate))
                                          ELSE Len(encoding)
      \* max_total_tokens.saturating_sub(input_length)
      new_tokens == IF IsSome(max_new_tokens) THEN Unwrap(max_new_tokens)
                    ELSE Max(self.max_total_tokens - input_length, 0)
      total_tokens == input_length + new_tokens
  IN IF total_tokens > self.max_total_tokens
       THEN Err(<<"MaxTotalTokens", self.max_total_tokens, input_length, new_tokens>>)
     ELSE IF input_length > self.max_input_length
       THEN Err(<<"InputLength", self.max_input_length, input_length>>)
     ELSE Ok([inputs |-> reply.chunks,
              \* ids[ids.len().saturating_sub(input_length)..]
              input_ids |-> Some(input_ids_of(encoding, input_length)),
              input_length |-> input_length,
              max_new_tokens |-> new_tokens])

(***************************************************************************)
(* The grammar step of validate.  A Json grammar carries what the JSON     *)
(* parser, the schema compiler and the schema-to-regex transform make of   *)
(* it: json is the kind of serde_json::Value, parses whether a String      *)
(* value is valid JSON, schema_valid whether it compiles under             *)
(* Draft 2020-12, properties whether the top level has that key, and       *)
(* regex_ok whether json_schema_to_regex succeeds.                         *)
(***************************************************************************)
\* a schema without a top-level `properties` key goes on to the regex
\* compilation
validate_grammar_without_properties(self, grammar) ==
  IF ~IsSome(grammar) THEN Ok(None)
  ELSE IF self.disable_grammar_support THEN Err(<<"Grammar">>)
  ELSE LET g == Unwrap(grammar)
       IN IF g.type = "Regex" THEN Ok(Some([type |-> "Regex", regex |-> g.regex]))
          ELSE IF g.json = "String" /\ ~g.parses THEN Err(<<"InvalidGrammar", "parse">>)
          ELSE IF g.json \notin {"String", "Object"} THEN Err(<<"Grammar">>)
          ELSE IF ~g.schema_valid THEN Err(<<"InvalidGrammar", "schema">>)
          ELSE IF ~g.regex_ok THEN Err(<<"RegexFromSchema">>)
          ELSE Ok(Some([type |-> "Regex", regex |-> "from-schema"]))

validate_grammar(self, grammar) ==
  IF ~IsSome(grammar) THEN Ok(None)
  ELSE IF self.disable_grammar_support THEN Err(<<"Grammar">>)
  ELSE LET g == Unwrap(grammar)
       IN IF g.type = "Regex" THEN Ok(Some([type |-> "Regex", regex |-> g.regex]))
          ELSE IF g.json = "String" /\ ~g.parses THEN Err(<<"InvalidGrammar", "parse">>)
          ELSE IF g.json \notin {"String", "Object"} THEN Err(<<"Grammar">>)
          ELSE IF ~g.schema_valid THEN Err(<<"InvalidGrammar", "schema">>)
          ELSE IF ~g.properties THEN Err(<<"InvalidGrammar", "properties">>)
          ELSE IF ~g.regex_ok THEN Err(<<"RegexFromSchema">>)
          ELSE Ok(Some([type |-> "Regex", regex |-> "from-schema"]))

(***************************************************************************)
(* The rest of validate, from the reply of the tokenization worker to the  *)
(* ValidGenerateRequest.  `checked` is what validate_parameters resolved,  *)
(* `seed` the seed resolved before the await.                              *)
(***************************************************************************)
validate_finish(self, request, checked, seed, reply) ==
  IF ~reply.ok THEN Err(reply.err)
  ELSE LET input == validate_input(self, reply.val, checked.truncate, request.max_new_tokens)
       IN IF ~input.ok THEN input
          ELSE LET grammar == validate_grammar(self, request.grammar)
               IN IF ~grammar.ok THEN grammar
                  ELSE Ok([inputs |-> input.val.inputs,
                           input_ids |-> input.val.input_ids,
                           add_special_tokens |-> request.add_special_tokens,
                           input_length |-> input.val.input_length,
                           truncate |-> unwrap_or(checked.truncate, self.max_input_length),
                           parameters |->
                             [temperature |-> checked.temperature,
                              repetition_penalty |-> checked.repetition_penalty,
                              frequency_penalty |-> checked.frequency_penalty,
                              top_k |-> checked.top_k,
                              top_p |-> checked.top_p,
                              typical_p |-> checked.typical_p,
                              do_sample |-> request.do_sample,
                              seed |-> seed,
                              grammar |-> grammar.val],
                           stopping_parameters |->
                             [max_new_tokens |-> input.val.max_new_tokens,
                              stop_sequences |-> request.stop,
                              ignore_eos_token |-> FALSE],
                           top_n_tokens |-> checked.top_n_tokens])

\* validate from call to return, when the tokenization service answers: the
\* parameter checks, the worker's prepare_input, then validate_finish;
\* `drawn` is what thread_rng().gen() yields when the request has no seed
validate_outcome(self, request, drawn) ==
  LET checked == validate_parameters(self, request)
      out == prepare_input(request.inputs, request.add_special_tokens, self.config,
                           self.do_image_splitting)
  IN IF ~checked.ok THEN [kind |-> "done", res |-> checked]
     ELSE IF out.kind = "panic" THEN [kind |-> "panic"]
     ELSE [kind |-> "done",
           res |-> validate_finish(self, request, checked.val,
                                   unwrap_or(request.seed, drawn), out.res)]

\* `>=` in place of `>`
validate_best_of_inclusive(self, best_of) ==
  IF self.max_best_of = 1 /\ best_of # 1 THEN Err(<<"BestOfDisabled">>)
  ELSE IF best_of >= self.max_best_of THEN Err(<<"BestOf", self.max_best_of, best_of>>)
  ELSE Ok(best_of)

\* Validation::validate_best_of
validate_best_of(self, best_of) ==
  IF self.max_best_of = 1 /\ best_of # 1 THEN Err(<<"BestOfDisabled">>)
  ELSE IF best_of > self.max_best_of THEN Err(<<"BestOf", self.max_best_of, best_of>>)
  ELSE Ok(best_of)

(***************************************************************************)
(* Requests and configurations the model draws from.                       *)
(***************************************************************************)
Callers == 1..NCallers

BaseRequest ==
  [inputs |-> <<"a">>, add_special_tokens |-> TRUE, best_of |-> None,
   temperature |-> None, repetition_penalty |-> None, frequency_penalty |-> None,
   top_k |-> None, top_p |-> None, typical_p |-> None, do_sample |-> FALSE,
   max_new_tokens |-> None, stop |-> <<>>, truncate |-> None, seed |-> None,
   top_n_tokens |-> None, grammar |-> None]

\* best_of = 2 with sampling switched on
SamplingRequest == [BaseRequest EXCEPT !.best_of = Some(2), !.do_sample = TRUE]

JsonGrammar(json, parses, schema_valid, properties, regex_ok) ==
  Some([type |-> "Json", json |-> json, parses |-> parses, schema_valid |-> schema_valid,
        properties |-> properties, regex_ok |-> regex_ok])

Grammars ==
  { Some([type |-> "Regex", regex |-> "[ab]+"]),
    JsonGrammar("Object", TRUE, TRUE, TRUE, TRUE),
    JsonGrammar("Object", TRUE, TRUE, FALSE, TRUE),
    JsonGrammar("Object", TRUE, FALSE, TRUE, TRUE),
    JsonGrammar("Object", TRUE, TRUE, TRUE, FALSE),
    JsonGrammar("String", FALSE, FALSE, FALSE, FALSE),
    JsonGrammar("String", TRUE, TRUE, FALSE, TRUE),
    JsonGrammar("Number", TRUE, TRUE, FALSE, FALSE) }

\* text of 1..n units "a b a b ..."
RECURSIVE TextOfLen(_)
TextOfLen(n) == IF n = 0 THEN <<>>
                ELSE Append(TextOfLen(n - 1), IF n % 2 = 1 THEN "a" ELSE "b")

PromptsV ==
  {TextOfLen(n) : n \in 0..(MaxTok + 2)}
    \cup {<<"x">>, <<"imgBad">>, <<"a", "img">>, <<"img", "vid">>}

Fields == DOMAIN BaseRequest

Alternatives(f) ==
  CASE f = "inputs" -> PromptsV
    [] f = "add_special_tokens" -> {}
    [] f = "best_of" -> {Some(1), Some(2)}
    [] f = "temperature" -> {Some(0), Some(5)}
    [] f = "repetition_penalty" -> {Some(0)}
    [] f = "frequency_penalty" -> {Some(-21), Some(21)}
    [] f = "top_k" -> {Some(0), Some(3)}
    [] f = "top_p" -> {Some(0), Some(5), Some(10)}
    [] f = "typical_p" -> {Some(0), Some(5), Some(10)}
    [] f = "do_sample" -> {TRUE, FALSE}
    [] f = "max_new_tokens" -> {Some(n) : n \in 0..(MaxTok + 1)}
    [] f = "stop" -> {<<"s1">>, <<"s1", "s2">>}
    [] f = "truncate" -> {Some(n) : n \in 0..(MaxTok + 1)}
    [] f = "seed" -> {Some(42)}
    [] f = "top_n_tokens" -> {Some(0), Some(1), Some(2)}
    [] f = "grammar" -> Grammars

\* the requests that differ from `base` in at most k fields
RECURSIVE Deviations(_, _)
Deviations(base, k) ==
  IF k = 0 THEN {base}
  ELSE LET prev == Deviations(base, k - 1)
       IN prev \cup UNION { UNION { {[r EXCEPT ![f] = v] : v \in Alternatives(f)}
                                    : f \in Fields }
                            : r \in prev }

RequestsV(k) == Deviations(BaseRequest, k) \cup Deviations(SamplingRequest, k)

\* the requests of the concurrent runs: one the worker answers with Ok, one
\* on which the tokenizer fails, and one with a video (no video_tokens rule
\* for Idefics2); all pass the parameter checks
RequestsC ==
  << [BaseRequest EXCEPT !.seed = Some(42), !.inputs = <<"a">>],
     [BaseRequest EXCEPT !.seed = Some(42), !.inputs = <<"x">>],
     [BaseRequest EXCEPT !.seed = Some(42), !.inputs = <<"vid">>] >>

\* every assignment of one of these requests to each caller
AssignmentsC == [Callers -> {RequestsC[i] : i \in 1..Len(RequestsC)}]

\* the values validate_best_of is called with
BestOfValues == 0..(MaxBestOf + 1)

\* Validation::new: the Python tokenizer is not shared between workers, one
\* worker is spawned whatever `workers` says
spawned_workers(workers, tokenizer) == IF tokenizer = "Python" THEN 1 ELSE workers

\* the arguments of Validation::new; tokenizer is "Rust" or "Python"
BaseValidation ==
  [workers |-> 1, tokenizer |-> "Rust", config |-> "Idefics2", do_image_splitting |-> TRUE,
   max_best_of |-> 2, max_stop_sequences |-> 1, max_top_n_tokens |-> 1,
   max_input_length |-> MaxTok, max_total_tokens |-> MaxTok + 1,
   disable_grammar_support |-> FALSE]

\* MaxWorkers workers asked for, with the Rust tokenizer (MaxWorkers workers
\* spawned) and with the Python tokenizer (one worker spawned)
ValidationsC ==
  { [BaseValidation EXCEPT !.workers = MaxWorkers, !.tokenizer = t] : t \in {"Rust", "Python"} }

ValidationsV ==
  { [BaseValidation EXCEPT !.config = "Qwen2Vl", !.max_input_length = i,
                           !.max_total_tokens = t, !.disable_grammar_support = d] :
      i \in {MaxTok - 1, MaxTok}, t \in {MaxTok, MaxTok + 1}, d \in BOOLEAN }

ValidationsB == { [BaseValidation EXCEPT !.max_best_of = m] : m \in BestOfValues }

\* the prompts of up to n units the chunk builder is run on
UnitsP ==
  {"a", "b", "<fake_token_around_image>", "img", "imgPng", "imgBad", "vid", "vidBad", "vidData"}

RECURSIVE PromptsP(_)
PromptsP(n) ==
  IF n = 0 THEN {<<>>}
  ELSE LET shorter == PromptsP(n - 1)
       IN shorter \cup {Append(p, u) : p \in {q \in shorter : Len(q) = n - 1}, u \in UnitsP}

\* no config, a text-only config and the six vision families; only Idefics2
\* reads do_image_splitting
ValidationsP ==
  { [BaseValidation EXCEPT !.config = f, !.do_image_splitting = d] :
      f \in VisionFamilies \cup {"NoConfig", "Text"}, d \in BOOLEAN }
    \ { v \in { [BaseValidation EXCEPT !.config = f, !.do_image_splitting = FALSE] :
                  f \in VisionFamilies \cup {"NoConfig", "Text"} } : v.config # "Idefics2" }

RandomSeeds == {0, 1}

(***************************************************************************)
(* State.                                                                  *)
(***************************************************************************)
VARIABLES
  self,              \* the arguments Validation::new was called with
  validation_alive,  \* some clone of Validation, hence of `sender`, exists
  request,           \* request[c]: the GenerateRequest caller c validates
  pc,                \* pc[c]: "idle"; in validate "awaiting", "returned", "dropped",
                     \*        "panicked"; in a direct call of tokenize "tokenizing",
                     \*        "tokenized", "tokenize_dropped", "tokenize_panicked";
                     \*        "best_of_checked" after a call of validate_best_of
  seed,              \* seed[c]: the seed validate resolved before the await
  result,            \* result[c]: what validate (or tokenize, validate_best_of) returned
  chan,              \* chan[c]: the oneshot channel of the caller's tokenize call
  inbound,           \* the queue from the callers to round_robin_task
  distributor,       \* round_robin_task: "running", "returned", "panicked"
  cursor,            \* position of `for sender in &senders`
  queues,            \* queues[w]: the queue of tokenizer_worker w
  worker,            \* worker[w]: "starting" (the Python tokenizer is not created
                     \*            yet), "running", "returned", "panicked"
  holding,           \* holding[w]: the request worker w took off its queue and has
                     \*             not answered yet, or None
  pulled,            \* history: what round_robin_task received, in order
  processed          \* history: processed[w], what worker w answered, in order

vars == <<self, validation_alive, request, pc, seed, result, chan, inbound,
          distributor, cursor, queues, worker, holding, pulled, processed>>

Workers == 1..spawned_workers(self.workers, self.tokenizer)

NoChan == [state |-> "none", rx |-> FALSE, val |-> None]

InitWith(validations, requests) ==
  /\ self \in validations
  /\ validation_alive = TRUE
  /\ request \in requests
  /\ pc = [c \in Callers |-> "idle"]
  /\ seed = [c \in Callers |-> 0]
  /\ result = [c \in Callers |-> None]
  /\ chan = [c \in Callers |-> NoChan]
  /\ inbound = <<>>
  /\ distributor = "running"
  /\ cursor = 1
  /\ queues = [w \in Workers |-> <<>>]
  /\ worker = [w \in Workers |-> IF self.tokenizer = "Python" THEN "starting"
                                                              ELSE "running"]
  /\ holding = [w \in Workers |-> None]
  /\ pulled = <<>>
  /\ processed = [w \in Workers |-> <<>>]

Init == InitWith(ValidationsC, AssignmentsC)

InitV == InitWith(ValidationsV, {[c \in Callers |-> r] : r \in RequestsV(MaxDev)})

\* the response_tx of every message of `msgs` is dropped unused
drop_senders(ch, ids) ==
  [c \in Callers |-> IF c \in ids /\ ch[c].state = "open"
                       THEN [ch[c] EXCEPT !.state = "closed"]
                       ELSE ch[c]]

Ids(q) == {q[i].id : i \in 1..Len(q)}

(***************************************************************************)
(* validate, first half: the parameter checks, then tokenize creates the   *)
(* oneshot channel and sends the TokenizerRequest.                         *)
(***************************************************************************)
tokenize_send(c, waiting, panicked) ==
  /\ IF distributor = "running"
       THEN /\ inbound' = Append(inbound,
                                 [id |-> c, inputs |-> request[c].inputs,
                                  add_special_tokens |-> request[c].add_special_tokens,
                                  truncate |-> request[c].truncate])
            /\ chan' = [chan EXCEPT ![c] = [state |-> "open", rx |-> TRUE, val |-> None]]
            /\ pc' = [pc EXCEPT ![c] = waiting]
       ELSE \* the receiver is gone: send(..).unwrap() panics
            /\ pc' = [pc EXCEPT ![c] = panicked]
            /\ UNCHANGED <<inbound, chan>>
  /\ UNCHANGED result

\* The callers are numbered in the order of their calls of validate.
ValidateStart(c) ==
  /\ pc[c] = "idle"
  /\ \A d \in 1..(c - 1) : pc[d] # "idle"
  /\ validation_alive
  /\ LET checked == validate_parameters(self, request[c])
     IN IF ~checked.ok
          THEN /\ pc' = [pc EXCEPT ![c] = "returned"]
               /\ result' = [result EXCEPT ![c] = checked]
               /\ UNCHANGED <<seed, chan, inbound>>
          ELSE \E s \in (IF IsSome(request[c].seed) THEN {Unwrap(request[c].seed)}
                                                   ELSE RandomSeeds) :
                 /\ seed' = [seed EXCEPT ![c] = s]
                 /\ tokenize_send(c, "awaiting", "panicked")
  /\ UNCHANGED <<self, validation_alive, request, distributor, cursor, queues, worker,
                 pulled, processed, holding>>

(***************************************************************************)
(* validate, second half: the caller is resumed by its reply.              *)
(***************************************************************************)
ValidateFinish(c) ==
  /\ pc[c] = "awaiting"
  /\ chan[c].state \in {"sent", "closed"}
  /\ IF chan[c].state = "closed"
       THEN \* response_receiver.await.unwrap() on a RecvError
            /\ pc' = [pc EXCEPT ![c] = "panicked"]
            /\ UNCHANGED result
       ELSE /\ pc' = [pc EXCEPT ![c] = "returned"]
            /\ result' = [result EXCEPT ![c] =
                 validate_finish(self, request[c], validate_parameters(self, request[c]).val,
                                 seed[c], chan[c].val)]
  /\ UNCHANGED <<self, validation_alive, request, seed, chan, inbound, distributor, cursor,
                 queues, worker, pulled, processed, holding>>

(***************************************************************************)
(* Validation::tokenize called on its own: no parameter check stands       *)
(* before the send, and the caller gets the reply of the worker as it is.  *)
(* The arguments are the inputs, add_special_tokens and truncate of        *)
(* request[c].                                                             *)
(***************************************************************************)
\* at most MaxDirect callers call tokenize on their own
DirectCalls == {"tokenizing", "tokenized", "tokenize_dropped", "tokenize_panicked"}

TokenizeStart(c) ==
  /\ pc[c] = "idle"
  /\ \A d \in 1..(c - 1) : pc[d] # "idle"
  /\ Cardinality({d \in Callers : pc[d] \in DirectCalls}) < MaxDirect
  /\ validation_alive
  /\ tokenize_send(c, "tokenizing", "tokenize_panicked")
  /\ UNCHANGED <<self, validation_alive, request, seed, distributor, cursor, queues, worker,
                 holding, pulled, processed>>

TokenizeFinish(c) ==
  /\ pc[c] = "tokenizing"
  /\ chan[c].state \in {"sent", "closed"}
  /\ IF chan[c].state = "closed"
       THEN \* response_receiver.await.unwrap() on a RecvError
            /\ pc' = [pc EXCEPT ![c] = "tokenize_panicked"]
            /\ UNCHANGED result
       ELSE /\ pc' = [pc EXCEPT ![c] = "tokenized"]
            /\ result' = [result EXCEPT ![c] = chan[c].val]
  /\ UNCHANGED <<self, validation_alive, request, seed, chan, inbound, distributor, cursor,
                 queues, worker, holding, pulled, processed>>

\* the caller's future is dropped while its request is queued or being
\* processed: the receiver goes away (a drop after the reply has arrived only
\* discards the reply); at most MaxDrops callers are dropped
DropReceiver(c) ==
  /\ pc[c] \in {"awaiting", "tokenizing"}
  /\ chan[c].state = "open"
  /\ Cardinality({d \in Callers : pc[d] \in {"dropped", "tokenize_dropped"}}) < MaxDrops
  /\ pc' = [pc EXCEPT ![c] = IF pc[c] = "awaiting" THEN "dropped" ELSE "tokenize_dropped"]
  /\ chan' = [chan EXCEPT ![c].rx = FALSE]
  /\ UNCHANGED <<self, validation_alive, request, seed, result, inbound, distributor, cursor,
                 queues, worker, pulled, processed, holding>>

\* the last clone of Validation is dropped; a pending validate borrows one
DropValidation ==
  /\ validation_alive
  /\ \A c \in Callers : pc[c] \notin {"awaiting", "tokenizing"}
  /\ validation_alive' = FALSE
  /\ UNCHANGED <<self, request, pc, seed, result, chan, inbound, distributor, cursor,
                 queues, worker, pulled, processed, holding>>

(***************************************************************************)
(* round_robin_task                                                        *)
(***************************************************************************)
\* every request goes to the first sender
next_sender_first(position, workers) == 1

\* `for sender in &senders` inside `loop`: the sender after `position`
next_sender(position, workers) == (position % workers) + 1

RoundRobinForward ==
  /\ distributor = "running"
  /\ inbound # <<>>
  /\ LET m == Head(inbound)
     IN /\ pulled' = Append(pulled, [id |-> m.id, to |-> cursor,
                                     sent |-> worker[cursor] # "panicked"])
        /\ IF worker[cursor] # "panicked"
             THEN /\ queues' = [queues EXCEPT ![cursor] = Append(@, m)]
                  /\ inbound' = Tail(inbound)
                  /\ cursor' = next_sender(cursor, Cardinality(Workers))
                  /\ UNCHANGED <<distributor, chan>>
             ELSE \* the worker's receiver is gone: sender.send(request).unwrap()
                  \* panics; the request, the inbound receiver and every sender drop
                  /\ distributor' = "panicked"
                  /\ chan' = drop_senders(chan, Ids(inbound))
                  /\ inbound' = <<>>
                  /\ UNCHANGED <<queues, cursor>>
  /\ UNCHANGED <<self, validation_alive, request, pc, seed, result, worker, processed, holding>>

\* receiver.recv() yields None: every sender is dropped and the queue is empty
RoundRobinReturn ==
  /\ distributor = "running"
  /\ inbound = <<>>
  /\ ~validation_alive
  /\ distributor' = "returned"
  /\ UNCHANGED <<self, validation_alive, request, pc, seed, result, chan, inbound, cursor,
                 queues, worker, pulled, processed, holding>>

(***************************************************************************)
(* tokenizer_worker                                                        *)
(***************************************************************************)
\* oneshot::Sender::send: Err(value) when the receiver is dropped
oneshot_send(ch, value) ==
  IF ch.rx THEN [ok |-> TRUE, ch |-> [ch EXCEPT !.state = "sent", !.val = value]]
           ELSE [ok |-> FALSE, ch |-> [ch EXCEPT !.state = "discarded"]]

\* response_tx.send(prepare_input(..)).unwrap_or(()): the state of the worker
\* and of the reply channel after one request
worker_reply(ch, out) ==
  IF out.kind = "panic"
    THEN \* the panic unwinds the worker and drops response_tx
         [worker |-> "panicked", ch |-> [ch EXCEPT !.state = "closed"]]
    ELSE [worker |-> "running", ch |-> oneshot_send(ch, out.res).ch]

\* the Python branch creates its tokenizer inside the worker, before the
\* loop: PyTokenizer::from_py(..)? leaves the closure with Err, and
\* .expect(..) panics the worker, whose receiver drops with what is queued
WorkerStart(w) ==
  /\ worker[w] = "starting"
  /\ \E from_py_ok \in BOOLEAN :
       IF from_py_ok
         THEN /\ worker' = [worker EXCEPT ![w] = "running"]
              /\ UNCHANGED <<chan, queues>>
         ELSE /\ worker' = [worker EXCEPT ![w] = "panicked"]
              /\ chan' = drop_senders(chan, Ids(queues[w]))
              /\ queues' = [queues EXCEPT ![w] = <<>>]
  /\ UNCHANGED <<self, validation_alive, request, pc, seed, result, inbound, distributor,
                 cursor, holding, pulled, processed>>

\* receiver.blocking_recv() yields a request: it leaves the queue
WorkerTake(w) ==
  /\ worker[w] = "running"
  /\ holding[w] = None
  /\ queues[w] # <<>>
  /\ holding' = [holding EXCEPT ![w] = Some(Head(queues[w]))]
  /\ queues' = [queues EXCEPT ![w] = Tail(@)]
  /\ UNCHANGED <<self, validation_alive, request, pc, seed, result, chan, inbound,
                 distributor, cursor, worker, pulled, processed>>

\* prepare_input has run (its fetches and child processes are over) and the
\* reply is sent, or the worker unwinds
WorkerReply(w) ==
  /\ worker[w] = "running"
  /\ holding[w] # None
  /\ LET m == Unwrap(holding[w])
         out == prepare_input(m.inputs, m.add_special_tokens, self.config,
                              self.do_image_splitting)
         after == worker_reply(chan[m.id], out)
     IN /\ worker' = [worker EXCEPT ![w] = after.worker]
        /\ processed' = [processed EXCEPT ![w] = Append(@, [id |-> m.id, rx |-> chan[m.id].rx])]
        /\ IF after.worker = "panicked"
             THEN \* the receiver of the worker drops with the requests it holds
                  /\ chan' = drop_senders([chan EXCEPT ![m.id] = after.ch], Ids(queues[w]))
                  /\ queues' = [queues EXCEPT ![w] = <<>>]
             ELSE /\ chan' = [chan EXCEPT ![m.id] = after.ch]
                  /\ UNCHANGED queues
  /\ holding' = [holding EXCEPT ![w] = None]
  /\ UNCHANGED <<self, validation_alive, request, pc, seed, result, inbound, distributor,
                 cursor, pulled>>

\* receiver.blocking_recv() yields None: the distributor dropped the sender
WorkerReturn(w) ==
  /\ worker[w] = "running"
  /\ holding[w] = None
  /\ queues[w] = <<>>
  /\ distributor # "running"
  /\ worker' = [worker EXCEPT ![w] = "returned"]
  /\ UNCHANGED <<self, validation_alive, request, pc, seed, result, chan, inbound,
                 distributor, cursor, queues, pulled, processed, holding>>

(***************************************************************************)
(* Validation::validate_best_of, called on its own by the request path.    *)
(***************************************************************************)
ValidateBestOf(c) ==
  /\ pc[c] = "idle"
  /\ validation_alive
  /\ \E n \in BestOfValues :
       result' = [result EXCEPT ![c] = [best_of |-> n, res |-> validate_best_of(self, n)]]
  /\ pc' = [pc EXCEPT ![c] = "best_of_checked"]
  /\ UNCHANGED <<self, validation_alive, request, seed, chan, inbound, distributor, cursor,
                 queues, worker, pulled, processed, holding>>

(***************************************************************************)
(* video_tokens, as prepare_input calls it on a processed video: the       *)
(* dimensions are those fetch_video was asked for, the number of sampled   *)
(* frames is whatever ffmpeg extracted.                                    *)
(***************************************************************************)
SampledFrames == 0..MaxFrames

VideoTokens(c) ==
  /\ \A d \in Callers : pc[d] = "idle"
  /\ validation_alive
  /\ video_tokens_supported(self.config)
  /\ \E n \in SampledFrames :
       LET v == fetch_video("vid", 360, 420).val
       IN result' = [result EXCEPT ![c] =
                       [sampled_frames |-> n, height |-> v.height, width |-> v.width,
                        nframes |-> video_nframes(n),
                        tokens |-> video_tokens(self.config, v.height, v.width, n)]]
  /\ pc' = [pc EXCEPT ![c] = "video_expanded"]
  /\ UNCHANGED <<self, validation_alive, request, seed, chan, inbound, distributor, cursor,
                 queues, worker, pulled, processed, holding>>

Next ==
  \/ \E c \in Callers : ValidateStart(c)
  \/ \E c \in Callers : ValidateFinish(c)
  \/ \E c \in Callers : TokenizeStart(c)
  \/ \E c \in Callers : TokenizeFinish(c)
  \/ \E c \in Callers : DropReceiver(c)
  \/ DropValidation
  \/ RoundRobinForward
  \/ RoundRobinReturn
  \/ \E w \in Workers : WorkerStart(w)
  \/ \E w \in Workers : WorkerTake(w)
  \/ \E w \in Workers : WorkerReply(w)
  \/ \E w \in Workers : WorkerReturn(w)

Spec == Init /\ [][Next]_vars

\* one caller, every request of RequestsV(MaxDev)
NextV ==
  \/ ValidateStart(1)
  \/ ValidateFinish(1)
  \/ RoundRobinForward
  \/ \E w \in Workers : WorkerTake(w)
  \/ \E w \in Workers : WorkerReply(w)

SpecV == InitV /\ [][NextV]_vars

\* one caller of Validation::tokenize on its own, with the inputs,
\* add_special_tokens and truncate of every request of RequestsV(MaxDev)
NextT ==
  \/ TokenizeStart(1)
  \/ TokenizeFinish(1)
  \/ RoundRobinForward
  \/ \E w \in Workers : WorkerTake(w)
  \/ \E w \in Workers : WorkerReply(w)

SpecT == InitV /\ [][NextT]_vars

\* the callers of validate_best_of
InitB == InitWith(ValidationsB, {[c \in Callers |-> BaseRequest]})

NextB == \E c \in Callers : ValidateBestOf(c)

SpecB == InitB /\ [][NextB]_vars

\* one caller, every prompt of PromptsP(MaxUnits) under every config family
InitP ==
  InitWith(ValidationsP,
           {[c \in Callers |-> [BaseRequest EXCEPT !.inputs = p]] : p \in PromptsP(MaxUnits)})

SpecP == InitP /\ [][NextV]_vars

\* the expansion of one processed video under the video-aware family, for
\* every number of sampled frames in SampledFrames
InitF ==
  InitWith({[BaseValidation EXCEPT !.config = "Qwen2Vl"]}, {[c \in Callers |-> BaseRequest]})

NextF == \E c \in Callers : VideoTokens(c)

SpecF == InitF /\ [][NextF]_vars

(***************************************************************************)
(* Properties.                                                             *)
(***************************************************************************)
\* what the worker computes from the request of caller c
Prepared(c) ==
  prepare_input(request[c].inputs, request[c].add_special_tokens, self.config,
                self.do_image_splitting)

\* the tokenizer capability fails on the query built from the request of c
EncodeFails(c) ==
  LET built == build_chunks(request[c].inputs, self.config, self.do_image_splitting)
  IN built.kind = "run" /\ ~encode_trait(built.query, request[c].add_special_tokens).ok

\* the requests round_robin_task put into the queue of worker w
Received(w) == {k \in 1..Len(pulled) : pulled[k].sent /\ pulled[k].to = w}

Forwarded == {k \in 1..Len(pulled) : pulled[k].sent}

\* worker w has answered request k of its log and is back in its receive loop
BackInLoop(w, k) ==
  k = Len(processed[w]) =>
    /\ worker[w] # "panicked"
    /\ queues[w] # <<>> => worker[w] = "running"

\* worker w panicked before its first request: the Python tokenizer could not
\* be created (a worker that panics on a request has that request in its log)
CreationFailed(w) == worker[w] = "panicked" /\ processed[w] = <<>>

TokenizersCreated == \A w \in Workers : ~CreationFailed(w)

\* C1: every request submitted to tokenize gets exactly one reply, computed
\* from its own input: as long as no worker failed to create its tokenizer,
\* its reply channel is never closed without a value, and the value sent is
\* the result of prepare_input on the caller's input.
C1_ExactlyOneOwnReply ==
  TokenizersCreated =>
    \A c \in Callers :
      /\ chan[c].state # "closed"
      /\ chan[c].state = "sent" => Prepared(c).kind = "done" /\ chan[c].val = Prepared(c).res

\* C2: no worker, no distributor and no caller task ever panics, whatever
\* the prompt and the model config are (a worker that could not create its
\* tokenizer set aside: that is no effect of a request).
C2_NothingPanics ==
  TokenizersCreated =>
    /\ distributor # "panicked"
    /\ \A w \in Workers : worker[w] # "panicked"
    /\ \A c \in Callers : pc[c] \notin {"panicked", "tokenize_panicked"}

\* C3: once a worker has processed a request that did not yield Ok (media
\* error, tokenizer error, unsupported content), that worker and the
\* distributor are still in service and no other request has lost its reply.
C3_FailureStaysLocal ==
  \A w \in Workers : \A k \in 1..Len(processed[w]) :
    LET c == processed[w][k].id
    IN (Prepared(c).kind = "panic" \/ ~Prepared(c).res.ok) =>
         /\ worker[w] # "panicked"
         /\ distributor # "panicked"
         /\ \A d \in Callers \ {c} : chan[d].state # "closed"

\* C4: when encode fails for a request, the worker sends Err(Tokenizer(msg))
\* on the reply channel of that request (the caller that is still there
\* gets exactly this error from validate) and the worker is back in its
\* receive loop, able to take the next request of its queue.
C4_TokenizerErrorIsReplied ==
  \A w \in Workers : \A k \in 1..Len(processed[w]) :
    LET c == processed[w][k].id
    IN EncodeFails(c) =>
         /\ IF processed[w][k].rx
              THEN /\ chan[c].state = "sent"
                   /\ chan[c].val = Err(<<"Tokenizer", "cannot encode">>)
              ELSE chan[c].state = "discarded"
         /\ pc[c] \in {"returned", "tokenized"} =>
              result[c] = Err(<<"Tokenizer", "cannot encode">>)
         /\ pc[c] \notin {"panicked", "tokenize_panicked"}
         /\ BackInLoop(w, k)

\* a worker answered a tokenizer failure, its caller got the error, and the
\* same worker went on to answer the next request of its queue
C4_Witness ==
  \E w \in Workers : \E k \in 1..Len(processed[w]) :
    /\ EncodeFails(processed[w][k].id)
    /\ pc[processed[w][k].id] = "returned"
    /\ k < Len(processed[w])
    /\ chan[processed[w][k + 1].id].state = "sent"

\* C5: the k-th request round_robin_task pulls (k from 0) goes to worker
\* k mod W, W being the number of workers spawned; with W >= 2 no worker
\* gets two requests in a row; when the
\* number M of forwarded requests is a multiple of W every worker has
\* received M / W of them; a worker holds or has answered what it received.
C5_StrictRoundRobin ==
  /\ \A k \in 1..Len(pulled) : pulled[k].to = ((k - 1) % Cardinality(Workers)) + 1
  /\ \A k \in 1..(Len(pulled) - 1) :
       Cardinality(Workers) >= 2 => pulled[k].to # pulled[k + 1].to
  /\ Cardinality(Forwarded) % Cardinality(Workers) = 0 =>
       \A w \in Workers :
         Cardinality(Received(w)) = Cardinality(Forwarded) \div Cardinality(Workers)
  /\ \A w \in Workers :
       worker[w] # "panicked" =>
         Len(queues[w]) + (IF holding[w] = None THEN 0 ELSE 1) + Len(processed[w])
           = Cardinality(Received(w))

\* two or more workers, and the distributor has wrapped around: a multiple
\* of W requests went out evenly and the next one went to the first worker
C5_Witness ==
  /\ Cardinality(Workers) >= 2
  /\ Len(pulled) = Cardinality(Workers) + 1
  /\ \A k \in 1..Len(pulled) : pulled[k].sent
  /\ pulled[Len(pulled)].to = 1

\* C6: once every sender of the inbound queue is dropped and the queue is
\* drained, the distributor returns and the workers terminate by returning,
\* a worker that is gone having answered every request forwarded to it (as
\* long as no worker failed to create its tokenizer).
C6_DrainThenTerminate ==
  (~validation_alive /\ inbound = <<>> /\ TokenizersCreated) =>
    /\ distributor # "panicked"
    /\ \A w \in Workers :
         /\ worker[w] # "panicked"
         /\ worker[w] = "returned" =>
              /\ distributor = "returned"
              /\ Len(processed[w]) = Cardinality(Received(w))

\* C7: a request whose receiver was dropped before the worker answered it
\* has its work completed and its reply discarded, and the worker is back in
\* its receive loop, able to take the next request of its queue.
C7_DroppedReceiverIsHarmless ==
  \A w \in Workers : \A k \in 1..Len(processed[w]) :
    LET c == processed[w][k].id
    IN ~processed[w][k].rx =>
         /\ Prepared(c).kind = "done"
         /\ chan[c].state = "discarded"
         /\ BackInLoop(w, k)

(***************************************************************************)
(* The checks of validate, numbered in the order the specification gives.  *)
(***************************************************************************)
CheckOf(error) ==
  CASE error = "BestOfSampling" -> 1
    [] error = "Temperature" -> 2
    [] error = "RepetitionPenalty" -> 3
    [] error = "FrequencyPenalty" -> 4
    [] error = "TopP" -> 5
    [] error = "TypicalP" -> 6
    [] error = "TopK" -> 7
    [] error = "NegativeMaxNewTokens" -> 8
    [] error = "StopSequence" -> 9
    [] error = "BestOfSeed" -> 10
    [] error = "TopNTokens" -> 11
    [] error = "EmptyInput" -> 12
    [] error = "Truncate" -> 13
    [] error \in {"Tokenizer", "InvalidImageContent", "InvalidVideoContent", "FFmpegError"} -> 14
    [] error = "MaxTotalTokens" -> 15
    [] error = "InputLength" -> 16
    [] error \in {"Grammar", "InvalidGrammar", "RegexFromSchema"} -> 17

OutOfRange(o, lo, hi) == IsSome(o) /\ (Unwrap(o) <= lo \/ Unwrap(o) >= hi)

\* the input length and the number of new tokens of a request whose prompt
\* the worker turns into an encoding
InputLengthOf(c) ==
  LET n == Len(Prepared(c).res.val.encoding)
  IN IF IsSome(request[c].truncate) THEN Min(n, Unwrap(request[c].truncate)) ELSE n

NewTokensOf(c) ==
  IF IsSome(request[c].max_new_tokens) THEN Unwrap(request[c].max_new_tokens)
  ELSE Max(self.max_total_tokens - InputLengthOf(c), 0)

Encoded(c) == Prepared(c).kind = "done" /\ Prepared(c).res.ok

\* the request of caller c violates check i
Violates(c, i) ==
  LET r == request[c]
  IN CASE i = 1 -> /\ IsSome(r.best_of) /\ Unwrap(r.best_of) > 1
                   /\ ~r.do_sample
                   /\ \A knob \in {r.temperature, r.top_k, r.top_p, r.typical_p} : knob = None
       [] i = 2 -> IsSome(r.temperature) /\ Unwrap(r.temperature) <= 0
       [] i = 3 -> IsSome(r.repetition_penalty) /\ Unwrap(r.repetition_penalty) <= 0
       [] i = 4 -> IsSome(r.frequency_penalty)
                     /\ (Unwrap(r.frequency_penalty) < -20 \/ Unwrap(r.frequency_penalty) > 20)
       [] i = 5 -> OutOfRange(r.top_p, 0, 10)
       [] i = 6 -> OutOfRange(r.typical_p, 0, 10)
       [] i = 7 -> IsSome(r.top_k) /\ Unwrap(r.top_k) <= 0
       [] i = 8 -> r.max_new_tokens = Some(0)
       [] i = 9 -> Len(r.stop) > self.max_stop_sequences
       [] i = 10 -> IsSome(r.seed) /\ IsSome(r.best_of) /\ Unwrap(r.best_of) > 1
       [] i = 11 -> IsSome(r.top_n_tokens) /\ Unwrap(r.top_n_tokens) > self.max_top_n_tokens
       [] i = 12 -> Len(r.inputs) = 0
       [] i = 13 -> IsSome(r.truncate)
                      /\ Unwrap(r.truncate) \notin 1..self.max_input_length
       [] i = 14 -> Prepared(c).kind = "done" /\ ~Prepared(c).res.ok
       [] i = 15 -> Encoded(c) /\ InputLengthOf(c) + NewTokensOf(c) > self.max_total_tokens
       [] i = 16 -> Encoded(c) /\ InputLengthOf(c) > self.max_input_length
       [] i = 17 -> ~validate_grammar(self, r.grammar).ok

Violated(c) == {i \in 1..17 : Violates(c, i)}

ParameterChecks == 1..13

First(S) == CHOOSE i \in S : \A j \in S : i <= j

\* C8: validate returns the error of the earliest check the request
\* violates, in the order BestOfSampling .. grammar, and Ok when it violates
\* none: the outcome is a function of the request (and the configuration).
C8_EarliestViolatedCheck ==
  \A c \in Callers :
    pc[c] = "returned" =>
      IF Violated(c) = {}
        THEN result[c].ok
        ELSE ~result[c].ok /\ CheckOf(result[c].err[1]) = First(Violated(c))

\* validate returned for a request that violates a parameter check and a
\* check that comes after tokenization, with the error of the former
C8_Witness ==
  \E c \in Callers :
    /\ pc[c] = "returned"
    /\ \E i \in Violated(c) : \E j \in Violated(c) : i \in ParameterChecks /\ j > 13
    /\ CheckOf(result[c].err[1]) > 1

\* C10: every ValidGenerateRequest validate returns has
\* input_length + max_new_tokens <= max_total_tokens and
\* input_length <= max_input_length.
C10_BudgetsHold ==
  \A c \in Callers :
    (pc[c] = "returned" /\ result[c].ok) =>
      /\ result[c].val.input_length + result[c].val.stopping_parameters.max_new_tokens
           <= self.max_total_tokens
      /\ result[c].val.input_length <= self.max_input_length

\* validate returned Ok for a prompt longer than its truncate value, with
\* max_new_tokens left unset
C10_Witness ==
  \E c \in Callers :
    /\ pc[c] = "returned" /\ result[c].ok
    /\ request[c].max_new_tokens = None
    /\ IsSome(request[c].truncate)
    /\ Len(chan[c].val.val.encoding) > result[c].val.input_length
    /\ result[c].val.stopping_parameters.max_new_tokens > 0

\* the TokenizerRequest of caller c was never created
NeverEnqueued(c) ==
  /\ chan[c].state = "none"
  /\ c \notin Ids(inbound)
  /\ \A w \in Workers :
       /\ c \notin Ids(queues[w]) /\ c \notin Ids(processed[w])
       /\ IF holding[w] = None THEN TRUE ELSE Unwrap(holding[w]).id # c
  /\ c \notin Ids(pulled)

\* caller c has called validate
InValidate(c) == pc[c] \in {"awaiting", "returned", "dropped", "panicked"}

ParameterError(c) ==
  pc[c] = "returned" /\ ~result[c].ok /\ CheckOf(result[c].err[1]) \in ParameterChecks

\* C9: a request for which validate returns a parameter-range error, and
\* so a request that violates a parameter check, is never enqueued: it has
\* no reply channel and it is in no queue, was pulled by no distributor and
\* was processed by no worker.
C9_ParameterErrorsNeverEnqueue ==
  \A c \in Callers :
    (ParameterError(c) \/ (InValidate(c) /\ \E i \in ParameterChecks : Violates(c, i)))
      => NeverEnqueued(c)

\* validate returned the error of the last parameter check, Truncate, and
\* nothing was enqueued
C9_Witness ==
  \E c \in Callers :
    /\ ParameterError(c)
    /\ result[c].err[1] = "Truncate"
    /\ NeverEnqueued(c)
    /\ inbound = <<>> /\ pulled = <<>>

\* C11: every ValidGenerateRequest validate returns has
\* stopping_parameters.max_new_tokens > 0, also when max_new_tokens was left
\* unset and computed as max_total_tokens - input_length.
C11_NewTokensPositive ==
  \A c \in Callers :
    (pc[c] = "returned" /\ result[c].ok) =>
      result[c].val.stopping_parameters.max_new_tokens > 0

\* validate_input was reached with a tokenized prompt: no parameter check
\* failed and the worker replied with an encoding
ReachedInputChecks(c) ==
  /\ pc[c] = "returned"
  /\ \A i \in ParameterChecks : ~Violates(c, i)
  /\ Encoded(c)

\* C12: whenever input_length + max_new_tokens exceeds max_total_tokens,
\* validate_input fails with MaxTotalTokens(max_total_tokens, input_length,
\* max_new_tokens) carrying these three values, also when the input exceeds
\* max_input_length as well.
C12_MaxTotalTokensFirst ==
  \A c \in Callers :
    (ReachedInputChecks(c) /\ InputLengthOf(c) + NewTokensOf(c) > self.max_total_tokens) =>
      result[c] = Err(<<"MaxTotalTokens", self.max_total_tokens, InputLengthOf(c),
                        NewTokensOf(c)>>)

\* validate returned MaxTotalTokens for an input that is longer than
\* max_input_length too, with max_new_tokens given explicitly
C12_Witness ==
  \E c \in Callers :
    /\ ReachedInputChecks(c)
    /\ IsSome(request[c].max_new_tokens)
    /\ InputLengthOf(c) > self.max_input_length
    /\ result[c] = Err(<<"MaxTotalTokens", self.max_total_tokens, InputLengthOf(c),
                         Unwrap(request[c].max_new_tokens)>>)

BestOfAbove1(c) == IsSome(request[c].best_of) /\ Unwrap(request[c].best_of) > 1

\* C13: a request with best_of > 1, do_sample = false and none of
\* temperature, top_k, top_p, typical_p set is rejected with BestOfSampling,
\* whatever its other parameters and its prompt are.
C13_BestOfNeedsSampling ==
  \A c \in Callers :
    (pc[c] # "idle" /\ Violates(c, 1)) =>
      pc[c] = "returned" /\ result[c] = Err(<<"BestOfSampling">>)

\* validate returned BestOfSampling for a request that has an explicit seed
\* or an empty prompt as well
C13_Witness ==
  \E c \in Callers :
    /\ pc[c] = "returned" /\ result[c] = Err(<<"BestOfSampling">>)
    /\ IsSome(request[c].seed) \/ request[c].inputs = <<>>

\* C14 as written: a request with best_of > 1 and an explicit seed is
\* rejected with BestOfSeed, whatever its other parameters are.
C14_AlwaysBestOfSeed ==
  \A c \in Callers :
    (pc[c] # "idle" /\ BestOfAbove1(c) /\ IsSome(request[c].seed)) =>
      pc[c] = "returned" /\ result[c] = Err(<<"BestOfSeed">>)

\* C14, amended: a request with best_of > 1 and an explicit seed is always
\* rejected by validate, before anything is tokenized; the error is
\* BestOfSeed, also when sampling is enabled, unless one of the checks made
\* before it (BestOfSampling .. StopSequence) fails, and then it is the error
\* of the earliest of those.
C14_SeedWithBestOfRejected ==
  \A c \in Callers :
    (pc[c] # "idle" /\ BestOfAbove1(c) /\ IsSome(request[c].seed)) =>
      /\ pc[c] = "returned" /\ ~result[c].ok
      /\ CheckOf(result[c].err[1]) = First({i \in 1..10 : Violates(c, i)})
      /\ (\A i \in 1..9 : ~Violates(c, i)) => result[c] = Err(<<"BestOfSeed">>)

\* validate returned BestOfSeed for a request with sampling switched on
C14_Witness ==
  \E c \in Callers :
    /\ pc[c] = "returned" /\ result[c] = Err(<<"BestOfSeed">>)
    /\ request[c].do_sample
    /\ BestOfAbove1(c) /\ IsSome(request[c].seed)

\* best_of unset or 1, do_sample = false and no sampling knob set
SeedNeutral(r) ==
  /\ r.best_of \in {None, Some(1)}
  /\ ~r.do_sample
  /\ \A knob \in {r.temperature, r.top_k, r.top_p, r.typical_p} : knob = None

SeedChoices == {None, Some(0), Some(42)}

\* C15: for a request with best_of unset or 1, do_sample = false and no
\* sampling knob, the outcome of validate is the same whether a seed is given
\* and whatever its value: the same request with any other seed succeeds too,
\* or fails with the same error; a request that violates no check succeeds.
C15_SeedDoesNotDecide ==
  \A c \in Callers :
    (pc[c] = "returned" /\ SeedNeutral(request[c])) =>
      /\ \A s \in SeedChoices : \A drawn \in RandomSeeds :
           LET other == validate_outcome(self, [request[c] EXCEPT !.seed = s], drawn)
           IN /\ other.kind = "done"
              /\ other.res.ok = result[c].ok
              /\ ~result[c].ok => other.res.err = result[c].err
      /\ Violated(c) = {} => result[c].ok

\* validate succeeded for a request with best_of = 1 and an explicit seed
C15_Witness ==
  \E c \in Callers :
    /\ pc[c] = "returned" /\ result[c].ok
    /\ SeedNeutral(request[c])
    /\ request[c].best_of = Some(1) /\ IsSome(request[c].seed)

TopPOutOfRange(c) == OutOfRange(request[c].top_p, 0, 10)

\* C16: a supplied top_p is accepted only strictly inside (0, 1): a supplied
\* value <= 0 or >= 1 (1.0 included) is rejected, with TopP when none of the
\* checks made before it fails; an unset top_p never gives TopP and resolves
\* to exactly 1.0 in the returned ValidParameters.
C16_TopPStrictlyInside ==
  \A c \in Callers :
    pc[c] = "returned" =>
      /\ TopPOutOfRange(c) =>
           /\ ~result[c].ok
           /\ (\A i \in 1..4 : ~Violates(c, i)) => result[c] = Err(<<"TopP">>)
      /\ (~result[c].ok /\ result[c].err = <<"TopP">>) => TopPOutOfRange(c)
      /\ result[c].ok =>
           result[c].val.parameters.top_p = unwrap_or(request[c].top_p, 10)

\* validate returned TopP for a top_p of exactly 1.0
C16_Witness ==
  \E c \in Callers :
    /\ pc[c] = "returned"
    /\ request[c].top_p = Some(10)
    /\ result[c] = Err(<<"TopP">>)

TopNAboveMax(c) ==
  IsSome(request[c].top_n_tokens) /\ Unwrap(request[c].top_n_tokens) > self.max_top_n_tokens

\* C17: an unset top_n_tokens resolves to 0 in the returned request; a
\* supplied v > max_top_n_tokens is rejected, with TopNTokens(max, v) when
\* none of the checks made before it fails; a supplied v <= max_top_n_tokens
\* (0 and the maximum included) never gives TopNTokens and is returned
\* unchanged.
C17_TopNTokensBounded ==
  \A c \in Callers :
    pc[c] = "returned" =>
      /\ TopNAboveMax(c) =>
           /\ ~result[c].ok
           /\ (\A i \in 1..10 : ~Violates(c, i)) =>
                result[c] = Err(<<"TopNTokens", self.max_top_n_tokens,
                                  Unwrap(request[c].top_n_tokens)>>)
      /\ (~result[c].ok /\ result[c].err[1] = "TopNTokens") => TopNAboveMax(c)
      /\ result[c].ok => result[c].val.top_n_tokens = unwrap_or(request[c].top_n_tokens, 0)

\* validate accepted a top_n_tokens equal to max_top_n_tokens
C17_Witness ==
  \E c \in Callers :
    /\ pc[c] = "returned" /\ result[c].ok
    /\ request[c].top_n_tokens = Some(self.max_top_n_tokens)
    /\ result[c].val.top_n_tokens = self.max_top_n_tokens

\* C18: validate_best_of(n) fails with BestOfDisabled when max_best_of is 1
\* and n # 1, otherwise with BestOf(max_best_of, n) when n > max_best_of, and
\* returns Ok(n), n unchanged, in every other case.
C18_ValidateBestOf ==
  \A c \in Callers :
    pc[c] = "best_of_checked" =>
      LET n == result[c].best_of
      IN result[c].res =
           IF self.max_best_of = 1 /\ n # 1 THEN Err(<<"BestOfDisabled">>)
           ELSE IF n > self.max_best_of THEN Err(<<"BestOf", self.max_best_of, n>>)
           ELSE Ok(n)

\* validate_best_of returned Ok for n equal to a max_best_of above 1, and
\* BestOfDisabled or BestOf for another call
C18_Witness ==
  /\ self.max_best_of > 1
  /\ \E c \in Callers :
       /\ pc[c] = "best_of_checked"
       /\ result[c].best_of = self.max_best_of
       /\ result[c].res = Ok(self.max_best_of)
  /\ \E c \in Callers :
       /\ pc[c] = "best_of_checked"
       /\ ~result[c].res.ok

(***************************************************************************)
(* The chunk builder, as seen in the reply of the worker.                   *)
(***************************************************************************)
\* C19: with no model config the chunk builder is the identity on every
\* input, markup included: the reply is Ok with the single chunk Text(input)
\* and the encoding of the input itself (the tokenizer query is the input),
\* and no media fetch fails or stops the worker.
C19_NoConfigIsIdentity ==
  \A c \in Callers :
    self.config = "NoConfig" =>
      /\ pc[c] # "idle" =>
           build_chunks(request[c].inputs, self.config, self.do_image_splitting)
             = Running(<<[type |-> "Text", text |-> request[c].inputs]>>, request[c].inputs, 0)
      /\ \A w \in Workers : worker[w] # "panicked"
      /\ chan[c].state \notin {"closed", "discarded"}
      /\ chan[c].state = "sent" =>
           chan[c].val =
             Ok([encoding |-> [i \in 1..Len(request[c].inputs) |-> TokId(request[c].inputs[i])],
                 chunks |-> <<[type |-> "Text", text |-> request[c].inputs]>>])

\* with no config, the worker replied to a prompt that holds an image marker
\* with an undecodable payload and a video marker
C19_Witness ==
  \E c \in Callers :
    /\ self.config = "NoConfig"
    /\ chan[c].state = "sent"
    /\ \E i \in 1..Len(request[c].inputs) : request[c].inputs[i] = "imgBad"
    /\ \E i \in 1..Len(request[c].inputs) : request[c].inputs[i] \in {"vid", "vidBad"}

\* the payload and the mimetype of a decodable image marker
DecodedImage(unit) ==
  IF unit = "img" THEN [type |-> "Image", data |-> "gifbytes", mimetype |-> "image/gif"]
                  ELSE [type |-> "Image", data |-> "pngbytes", mimetype |-> "image/png"]

\* the chunks of a prompt of text and image markers, read left to right:
\* `text` is the text span met since the last marker
RECURSIVE ExpectedChunks(_, _)
ExpectedChunks(rest, text) ==
  LET span == IF text = <<>> THEN <<>> ELSE <<[type |-> "Text", text |-> text]>>
  IN IF rest = <<>> THEN span
     ELSE IF Head(rest) \in {"img", "imgPng"}
       THEN span \o <<DecodedImage(Head(rest))>> \o ExpectedChunks(Tail(rest), <<>>)
       ELSE ExpectedChunks(Tail(rest), Append(text, Head(rest)))

TextAndImagesOnly(inputs) ==
  \A i \in 1..Len(inputs) : inputs[i] \in {"a", "b", "img", "imgPng"}

\* C20: under a vision config, for a prompt of text and (decodable) image
\* markers only, the reply holds, in prompt order, one Text chunk per
\* non-empty text span outside the markers and one Image chunk per marker
\* with the decoded bytes of its payload; there is no empty Text chunk and
\* trailing text is the last chunk.
C20_TextAndImageChunks ==
  \A c \in Callers :
    (self.config \in VisionFamilies /\ TextAndImagesOnly(request[c].inputs)) =>
      /\ chan[c].state \notin {"closed", "discarded"}
      /\ chan[c].state = "sent" =>
           /\ chan[c].val.ok
           /\ chan[c].val.val.chunks = ExpectedChunks(request[c].inputs, <<>>)
           /\ \A k \in 1..Len(chan[c].val.val.chunks) :
                chan[c].val.val.chunks[k].type = "Text" =>
                  chan[c].val.val.chunks[k].text # <<>>

\* the reply to a prompt that starts with an image, has two different images
\* next to each other and ends with text
C20_Witness ==
  \E c \in Callers :
    /\ self.config \in VisionFamilies
    /\ chan[c].state = "sent"
    /\ request[c].inputs = <<"img", "imgPng", "a">>
    /\ Len(chan[c].val.val.chunks) = 3

(***************************************************************************)
(* Prompts that mix image and video markers.                               *)
(***************************************************************************)
\* the kinds of the chunks of a prompt read left to right: one "Text" per
\* non-empty text span, one "Image" or "Video" per marker
RECURSIVE ExpectedKinds(_, _)
ExpectedKinds(rest, in_text) ==
  IF rest = <<>> THEN <<>>
  ELSE IF Head(rest) \in {"img", "imgPng"}
    THEN <<"Image">> \o ExpectedKinds(Tail(rest), FALSE)
    ELSE IF Head(rest) = "vid"
      THEN <<"Video">> \o ExpectedKinds(Tail(rest), FALSE)
      ELSE (IF in_text THEN <<>> ELSE <<"Text">>) \o ExpectedKinds(Tail(rest), TRUE)

\* a prompt of text, decodable images and processable videos that holds at
\* least one image marker and one video marker
MixedMedia(inputs) ==
  /\ \A i \in 1..Len(inputs) : inputs[i] \in {"a", "b", "img", "imgPng", "vid"}
  /\ \E i \in 1..Len(inputs) : inputs[i] \in {"img", "imgPng"}
  /\ \E i \in 1..Len(inputs) : inputs[i] = "vid"

\* C21: under a vision config, a prompt that mixes image and video markers
\* in any order is answered with the chunks in the left-to-right order of
\* the prompt, one media chunk of its kind per marker, and no Text chunk
\* holds the markup of a marker; the worker does not stop on it.
C21_MixedMediaInOrder ==
  \A c \in Callers :
    (self.config \in VisionFamilies /\ MixedMedia(request[c].inputs)) =>
      /\ chan[c].state \notin {"closed", "discarded"}
      /\ chan[c].state = "sent" =>
           /\ chan[c].val.ok
           /\ [k \in 1..Len(chan[c].val.val.chunks) |-> chan[c].val.val.chunks[k].type]
                = ExpectedKinds(request[c].inputs, FALSE)
           /\ \A k \in 1..Len(chan[c].val.val.chunks) :
                chan[c].val.val.chunks[k].type = "Text" =>
                  \A i \in 1..Len(chan[c].val.val.chunks[k].text) :
                    chan[c].val.val.chunks[k].text[i] \in {"a", "b"}

(***************************************************************************)
(* The boundary markers of back-to-back images.                            *)
(***************************************************************************)
\* the places of the image markers of a prompt
ImagePlaces(inputs) == {i \in 1..Len(inputs) : inputs[i] \in {"img", "imgPng"}}

\* a prompt of text and n >= 1 decodable images that stand next to each other
BackToBackImages(inputs) ==
  /\ TextAndImagesOnly(inputs)
  /\ ImagePlaces(inputs) # {}
  /\ \A i, j \in ImagePlaces(inputs) : \A k \in i..j : k \in ImagePlaces(inputs)

\* the number of boundary marker tokens in an encoding
FakeTokens(encoding) ==
  Cardinality({i \in 1..Len(encoding) : encoding[i] = TokId("<fake_token_around_image>")})

\* C22: under Idefics2 with image splitting on (and at least one feature
\* per image), the query built from a prompt with n >= 1 back-to-back
\* images holds exactly 5n + 1 boundary markers after the fix-up pass.
C22_FakeMarkersOfSplitImages ==
  \A c \in Callers :
    ( /\ self.config = "Idefics2"
      /\ self.do_image_splitting
      /\ FeatureCount >= 1
      /\ BackToBackImages(request[c].inputs)
      /\ chan[c].state = "sent" ) =>
        /\ chan[c].val.ok
        /\ FakeTokens(chan[c].val.val.encoding)
             = 5 * Cardinality(ImagePlaces(request[c].inputs)) + 1

\* the reply to text followed by two images, with 11 boundary markers
C22_Witness ==
  \E c \in Callers :
    /\ self.config = "Idefics2"
    /\ self.do_image_splitting
    /\ request[c].inputs = <<"a", "img", "img">>
    /\ chan[c].state = "sent"
    /\ FakeTokens(chan[c].val.val.encoding) = 11

(***************************************************************************)
(* Media for which the config has no placeholder rule.                     *)
(***************************************************************************)
\* a well-formed video marker under a vision family other than Qwen2Vl, or
\* a well-formed image or video marker under a config that is not a vision
\* family
NoPlaceholderRule(config, inputs) ==
  \/ /\ config \in VisionFamilies \ {"Qwen2Vl"}
     /\ \E i \in 1..Len(inputs) : inputs[i] = "vid"
  \/ /\ config = "Text"
     /\ \E i \in 1..Len(inputs) : inputs[i] \in {"img", "imgPng", "vid"}

\* C23: a prompt with media for which the config has no placeholder rule is
\* answered with the error UnsupportedModality: the worker does not stop on
\* it and the media is not returned as text.
C23_UnsupportedModalityIsAnError ==
  \A c \in Callers :
    NoPlaceholderRule(self.config, request[c].inputs) =>
      /\ chan[c].state \notin {"closed", "discarded"}
      /\ chan[c].state = "sent" =>
           /\ ~chan[c].val.ok
           /\ chan[c].val.err[1] = "UnsupportedModality"

(***************************************************************************)
(* Grammars without a top-level `properties` key.                          *)
(***************************************************************************)
\* the request of c carries a JSON-Schema grammar, as an object or as a
\* JSON string, whose top level has no `properties` key
LacksProperties(c) ==
  /\ IsSome(request[c].grammar)
  /\ Unwrap(request[c].grammar).type = "Json"
  /\ Unwrap(request[c].grammar).json \in {"Object", "String"}
  /\ ~Unwrap(request[c].grammar).properties

\* C24: a request with a JSON-Schema grammar that has no top-level
\* `properties` key never yields a ValidGenerateRequest; with grammar
\* support enabled and every earlier check passing, validate fails with the
\* grammar error InvalidGrammar, whether the schema is otherwise valid or
\* not.
C24_GrammarNeedsProperties ==
  \A c \in Callers :
    (pc[c] = "returned" /\ LacksProperties(c)) =>
      /\ ~result[c].ok
      /\ (~self.disable_grammar_support /\ \A i \in 1..16 : ~Violates(c, i)) =>
           result[c].err[1] = "InvalidGrammar"

\* validate rejected an otherwise valid schema object for its missing
\* `properties` key
C24_Witness ==
  \E c \in Callers :
    /\ pc[c] = "returned"
    /\ ~self.disable_grammar_support
    /\ request[c].grammar = JsonGrammar("Object", TRUE, TRUE, FALSE, TRUE)
    /\ result[c] = Err(<<"InvalidGrammar", "properties">>)

(***************************************************************************)
(* truncate.                                                               *)
(***************************************************************************)
TruncateOutOfRange(c) ==
  IsSome(request[c].truncate)
    /\ (Unwrap(request[c].truncate) = 0 \/ Unwrap(request[c].truncate) > self.max_input_length)

\* C25: a supplied truncate of 0 or above max_input_length is rejected, with
\* Truncate(max_input_length, value) when none of the checks made before it
\* fails; any other truncate never gives Truncate, and the truncate field of
\* the returned request is the supplied value, or max_input_length when
\* truncate is unset.
C25_TruncateInRange ==
  \A c \in Callers :
    pc[c] = "returned" =>
      /\ TruncateOutOfRange(c) =>
           /\ ~result[c].ok
           /\ (\A i \in 1..12 : ~Violates(c, i)) =>
                result[c] = Err(<<"Truncate", self.max_input_length,
                                  Unwrap(request[c].truncate)>>)
      /\ (~result[c].ok /\ result[c].err[1] = "Truncate") => TruncateOutOfRange(c)
      /\ result[c].ok =>
           result[c].val.truncate
             = IF IsSome(request[c].truncate) THEN Unwrap(request[c].truncate)
                                              ELSE self.max_input_length

\* validate rejected a truncate of 0 with Truncate(max_input_length, 0)
C25_Witness ==
  \E c \in Callers :
    /\ pc[c] = "returned"
    /\ request[c].truncate = Some(0)
    /\ result[c] = Err(<<"Truncate", self.max_input_length, 0>>)

\* validate accepted a truncate equal to max_input_length and returned it;
\* without a truncate it returned max_input_length
C25_Accepted ==
  \E c \in Callers :
    /\ pc[c] = "returned" /\ result[c].ok
    /\ request[c].truncate = Some(self.max_input_length)
    /\ result[c].val.truncate = self.max_input_length

(***************************************************************************)
(* Video references in the data-URI form.                                  *)
(***************************************************************************)
\* C26: under a vision config a video reference in the base64 data-URI form
\* is found by the video scan like one in the http(s) form: in an Ok reply
\* every video reference of the prompt is a Video chunk and no Text chunk
\* holds the markup of a data-URI video.
C26_DataUriVideoDetected ==
  \A c \in Callers :
    ( /\ self.config \in VisionFamilies
      /\ \E i \in 1..Len(request[c].inputs) : request[c].inputs[i] = "vidData"
      /\ chan[c].state = "sent"
      /\ chan[c].val.ok ) =>
        LET chunks == chan[c].val.val.chunks
        IN /\ \A k \in 1..Len(chunks) :
                chunks[k].type = "Text" =>
                  \A i \in 1..Len(chunks[k].text) : chunks[k].text[i] # "vidData"
           /\ Cardinality({k \in 1..Len(chunks) : chunks[k].type = "Video"})
                = Cardinality({i \in 1..Len(request[c].inputs) :
                                 request[c].inputs[i] \in {"vid", "vidData"}})

(***************************************************************************)
(* The fix-up pass applied twice.                                          *)
(***************************************************************************)
\* two boundary markers stand next to each other in a query
AdjacentFakes(query) ==
  \E i \in 1..(Len(query) - 1) :
    query[i] = "<fake_token_around_image>" /\ query[i + 1] = "<fake_token_around_image>"

\* C27: the fix-up pass is idempotent on every tokenizer query the chunk
\* builder builds, user text that spells boundary markers included: a second
\* image_tokens_fixup changes nothing, and under Idefics2 no two boundary
\* markers are adjacent in the query.
C27_FixupIdempotent ==
  \A c \in Callers :
    chan[c].state = "sent" =>
      LET built == build_chunks(request[c].inputs, self.config, self.do_image_splitting)
      IN built.kind = "run" =>
           /\ image_tokens_fixup(self.config, built.query) = built.query
           /\ self.config = "Idefics2" => ~AdjacentFakes(built.query)

(***************************************************************************)
(* validate_best_of and a best_of of 0.                                    *)
(***************************************************************************)
\* C28: validate_best_of(n) returns Ok(n) only when 0 < n <= max_best_of;
\* a best_of of 0 is rejected whatever max_best_of is.
C28_BestOfPositive ==
  \A c \in Callers :
    pc[c] = "best_of_checked" =>
      /\ result[c].res.ok =>
           /\ result[c].res.val = result[c].best_of
           /\ 0 < result[c].best_of
           /\ result[c].best_of <= self.max_best_of
      /\ result[c].best_of = 0 => ~result[c].res.ok

(***************************************************************************)
(* The frame count and the placeholders of a video.                        *)
(***************************************************************************)
VideoPads(tokens) == Cardinality({i \in 1..Len(tokens) : tokens[i] = "<|video_pad|>"})

\* C29: under the video-aware family, for every sampled frame count the
\* frame count used for the expansion is even, lies in [2, 256] and differs
\* by at most 1 from the sampled count clamped into [2, 256] (it is the
\* clamped count when that is even), and the expansion holds
\* frames * height * width / 1541 video placeholders (integer division).
C29_EvenClampedFrames ==
  \A c \in Callers :
    pc[c] = "video_expanded" =>
      LET clamped == Min(Max(result[c].sampled_frames, 2), 256)
          frames == result[c].nframes
      IN /\ frames % 2 = 0
         /\ frames >= 2 /\ frames <= 256
         /\ frames - clamped \in {-1, 0, 1}
         /\ clamped % 2 = 0 => frames = clamped
         /\ VideoPads(result[c].tokens)
              = (frames * result[c].height * result[c].width) \div 1541

\* a video of 255 sampled frames was expanded with 256 frames and
\* 256 * 420 * 360 / 1541 = 25118 placeholders
C29_Witness ==
  \E c \in Callers :
    /\ pc[c] = "video_expanded"
    /\ result[c].sampled_frames = 255
    /\ result[c].nframes = 256
    /\ VideoPads(result[c].tokens) = 25118

(***************************************************************************)
(* input_length and input_ids of a returned request.                       *)
(***************************************************************************)
\* C30: in every successful validate, input_length is min(encoding length,
\* truncate), the encoding length when truncate is unset, and input_ids is
\* present, has input_length elements and is the last input_length token
\* ids of the encoding: truncation keeps the tail of the prompt.
C30_TruncationKeepsTail ==
  \A c \in Callers :
    (pc[c] = "returned" /\ result[c].ok) =>
      LET encoding == Prepared(c).res.val.encoding
          n == Len(encoding)
          input_length == result[c].val.input_length
      IN /\ input_length = IF IsSome(request[c].truncate)
                             THEN Min(n, Unwrap(request[c].truncate)) ELSE n
         /\ IsSome(result[c].val.input_ids)
         /\ Len(Unwrap(result[c].val.input_ids)) = input_length
         /\ \A k \in 1..input_length :
              Unwrap(result[c].val.input_ids)[k] = encoding[n - input_length + k]

\* validate truncated the two tokens of "a b" to the last one
C30_Witness ==
  \E c \in Callers :
    /\ pc[c] = "returned" /\ result[c].ok
    /\ request[c].inputs = <<"a", "b">>
    /\ request[c].truncate = Some(1)
    /\ result[c].val.input_length = 1
    /\ result[c].val.input_ids = Some(<<TokId("b")>>)

====
